---- MODULE Spec2Model ----
(***************************************************************************)
(* A model of the ICAP server of intra-sh/icap: the accept loop and the    *)
(* per-connection serving goroutine (server.go), the response writer the   *)
(* connection loop drives, and the chunked transfer codec (chunked.go).    *)
(***************************************************************************)
EXTENDS Integers, Sequences, FiniteSets, TLC

(***************************************************************************)
(* Bounds of the model.                                                    *)
(***************************************************************************)
\* connections a client opens against the listener
MaxConns == 2
\* requests a client sends on one connection
MaxReqs == 2
\* chunks a handler writes into one response body
MaxWrites == 2
\* transient Accept errors the listener reports
MaxTimeouts == 1
\* chunks of a chunked stream, the zero-size chunk not counted
MaxChunks == 2
\* length of the buffer a caller passes to chunkedReader.Read
MaxBuf == 2
\* calls made on one chunkedWriter
MaxOps == 3
\* ticks of the clock
MaxTime == 3
\* the longest srv.ReadTimeout, in ticks
MaxReadTimeout == 2

(***************************************************************************)
(* Bytes are their ASCII codes.                                            *)
(***************************************************************************)
CR == 13
LF == 10
Zero == 48
LowerA == 97
UpperA == 65
Space == 32
Tab == 9
\* a payload byte that is neither a hex digit nor whitespace
ByteX == 120
\* the filler byte standing for one byte of a serialized HTTP head
ByteH == 72
\* the byte that starts a chunk extension
Semi == 59

Conns == 1..MaxConns

VARIABLES
    \* ---- Server.Serve ----
    servePc,      \* "accept" | "sleep" | "returned"
    lClosed,      \* the listener has been closed (defer l.Close())
    accepted,     \* connections accepted so far; they are 1..accepted
    timeouts,     \* transient Accept errors seen so far
    serveRet,     \* the error Serve returned, "none" while it runs
    \* ---- conn, one per accepted connection ----
    pc,           \* position of the goroutine running conn.serve
    rwcClose,     \* calls of Close on the connection's net.Conn
    bufNil,       \* c.buf = nil
    nRead,        \* requests read by readRequest without error
    nRet,         \* handler invocations that returned
    nFin,         \* finishRequest calls completed
    w,            \* the respWriter of the request in progress
    bw,           \* bytes held in the connection's bufio.Writer
    wire,         \* bytes handed to the socket
    lastWrite,    \* error returned by the handler's last Write call
    readErr,      \* the error that ended the connection's last readRequest
    \* ---- chunkedReader over a bufio.Reader ----
    input,        \* how the bytes under the reader were produced
    stream,       \* the bytes the underlying reader delivers before it ends
    cr,           \* the chunkedReader: n, err, and pos, the bytes consumed from cr.r
    out,          \* the bytes Read has returned so far
    ret,          \* what the last Read call returned: <<n, err>>
    \* ---- chunkedWriter over an io.Writer ----
    Wire,         \* the bytes cw.Wire has taken
    wret,         \* what the last Write or Close call returned: <<n, err>>
    wops,         \* calls made on the chunkedWriter so far
    wclosed,      \* history: Close has been called on the chunkedWriter
    \* ---- the handler of the server ----
    mux,          \* DefaultServeMux: the handler registered for each path
    handler,      \* the local variable handler of Server.Serve
    invoked,      \* history: per connection, the handler each request went to
    \* ---- the read deadline of each connection ----
    readTimeout,  \* srv.ReadTimeout, in ticks of the clock; 0 is the zero Duration
    now,          \* the clock, time.Now()
    deadline,     \* the read deadline of each net.Conn; 0 is the zero Time, none
    buffered,     \* whole requests held unread in each connection's bufio.Reader
    readAt        \* history: the time each connection's last readRequest returned

srvVars == <<servePc, lClosed, accepted, timeouts, serveRet>>
connVars == <<pc, rwcClose, bufNil, nRead, nRet, nFin, w, bw, wire, lastWrite, readErr>>
rdVars == <<input, stream, cr, out, ret>>
cwVars == <<Wire, wret, wops, wclosed>>
muxVars == <<mux, handler, invoked>>
dlVars == <<readTimeout, now, deadline, buffered, readAt>>
vars == <<srvVars, connVars, rdVars, cwVars, muxVars, dlVars>>

\* no chunked stream is being read
NoInput == [chunks |-> <<>>, style |-> "none", tail |-> <<>>, fault |-> "none", at |-> 0]

(***************************************************************************)
(* chunked.go: the chunked writer.                                         *)
(***************************************************************************)
Rep(n, b) == [i \in 1..n |-> b]

\* a %X in place of the %x
HexDigit_upper(d) == IF d < 10 THEN Zero + d ELSE UpperA + (d - 10)

HexDigit(d) == IF d < 10 THEN Zero + d ELSE LowerA + (d - 10)

RECURSIVE Hex(_)
\* fmt's %x of a non-negative int: lower-case hex, no leading zeros
Hex(n) == IF n < 16 THEN <<HexDigit(n)>> ELSE Hex(n \div 16) \o <<HexDigit(n % 16)>>

\* a Write without the check for 0-length data
chunkedWriter_Write_empty(data) ==
    Hex(Len(data)) \o <<CR, LF>> \o data \o <<CR, LF>>

\* the bytes chunkedWriter.Write(data) puts on cw.Wire
chunkedWriter_Write(data) ==
    IF Len(data) = 0
    THEN <<>>
    ELSE Hex(Len(data)) \o <<CR, LF>> \o data \o <<CR, LF>>

\* a Close that also ends the chunked body
chunkedWriter_Close_ending == <<Zero, CR, LF, CR, LF>>

\* the bytes chunkedWriter.Close() puts on cw.Wire
chunkedWriter_Close == <<Zero, CR, LF>>

\* how cw.Wire behaves during one call: it takes everything, or its first
\* failure is in the write of the size line, in the write of the data (an
\* error, or a short count without one) or in the write of the closing CRLF
WireFaults == {"none", "size", "data", "short", "crlf"}

\* chunkedWriter.Write(data) on a Wire that behaves as f: the bytes Wire
\* takes, and the n and err returned
chunkedWriter_WriteOn(data, f) ==
    IF Len(data) = 0 \/ f = "none"
    THEN [b |-> chunkedWriter_Write(data), n |-> Len(data), err |-> "nil"]
    ELSE CASE f = "size" -> [b |-> <<>>, n |-> 0, err |-> "io"]
           [] f = "data" -> [b |-> Hex(Len(data)) \o <<CR, LF>>, n |-> 0, err |-> "io"]
           [] f = "short" ->
                [b |-> Hex(Len(data)) \o <<CR, LF>> \o SubSeq(data, 1, Len(data) - 1),
                 n |-> Len(data) - 1, err |-> "ErrShortWrite"]
           [] OTHER -> [b |-> Hex(Len(data)) \o <<CR, LF>> \o data,
                        n |-> Len(data), err |-> "io"]

\* the buffers a caller passes to chunkedWriter.Write: empty, one byte, and
\* lengths whose hex size has a letter and two digits
WriteBufs == {<<>>, <<ByteX>>, Rep(10, ByteX), Rep(17, ByteX)}

\* one Write call on the chunkedWriter
Write(data, f) ==
    /\ wops < MaxOps
    /\ LET r == chunkedWriter_WriteOn(data, f)
       IN  /\ Wire' = Wire \o r.b
           /\ wret' = <<r.n, r.err>>
    /\ wops' = wops + 1
    /\ wclosed' = wclosed
    /\ UNCHANGED <<srvVars, connVars, rdVars, muxVars, dlVars>>

\* one Close call on the chunkedWriter
Close(f) ==
    /\ wops < MaxOps
    /\ Wire' = Wire \o (IF f = "none" THEN chunkedWriter_Close ELSE <<>>)
    /\ wret' = <<0, IF f = "none" THEN "nil" ELSE "io">>
    /\ wops' = wops + 1
    /\ wclosed' = TRUE
    /\ UNCHANGED <<srvVars, connVars, rdVars, muxVars, dlVars>>

(***************************************************************************)
(* chunked.go: the chunked reader. Errors are named by their Go value;     *)
(* "nil" is no error and "EOF" is io.EOF.                                  *)
(***************************************************************************)
maxLineLength == 4096
\* the size of the buffer of a bufio.Reader made by bufio.NewReader
defaultBufSize == 4096

isASCIISpace(b) == b = Space \/ b = Tab \/ b = LF \/ b = CR

RECURSIVE trimTrailingWhitespace(_)
trimTrailingWhitespace(b) ==
    IF Len(b) > 0 /\ isASCIISpace(b[Len(b)])
    THEN trimTrailingWhitespace(SubSeq(b, 1, Len(b) - 1))
    ELSE b

\* the index of the first LF of s behind pos, 0 when there is none
FirstLF(s, pos) ==
    LET I == {i \in (pos + 1)..Len(s) : s[i] = LF}
    IN  IF I = {} THEN 0 ELSE CHOOSE i \in I : \A j \in I : i <= j

\* readLine on a bufio.Reader that has consumed pos bytes of s:
\* the line, the error and the bytes consumed afterwards
readLine(s, pos) ==
    LET i == FirstLF(s, pos)
    IN  IF i = 0 \/ i - pos > defaultBufSize
        THEN IF Len(s) - pos >= defaultBufSize
             THEN [p |-> <<>>, err |-> "errLineTooLong", pos |-> pos + defaultBufSize]
             ELSE [p |-> <<>>, err |-> "ErrUnexpectedEOF", pos |-> Len(s)]
        ELSE IF i - pos >= maxLineLength
        THEN [p |-> <<>>, err |-> "errLineTooLong", pos |-> i]
        ELSE [p |-> trimTrailingWhitespace(SubSeq(s, pos + 1, i)), err |-> "nil", pos |-> i]

\* a switch without the default case
isHexDigit_any(b) == TRUE

\* the cases of parseHexUint's switch: is b a hex digit
isHexDigit(b) ==
    \/ Zero <= b /\ b <= Zero + 9
    \/ LowerA <= b /\ b <= LowerA + 5
    \/ UpperA <= b /\ b <= UpperA + 5

\* a switch that forgets the + 10 of the letters
hexDigitValue_letters(b) ==
    IF Zero <= b /\ b <= Zero + 9 THEN b - Zero
    ELSE IF LowerA <= b /\ b <= LowerA + 5 THEN b - LowerA
    ELSE b - UpperA

\* the cases of parseHexUint's switch: the value of hex digit b
hexDigitValue(b) ==
    IF Zero <= b /\ b <= Zero + 9 THEN b - Zero
    ELSE IF LowerA <= b /\ b <= LowerA + 5 THEN b - LowerA + 10
    ELSE b - UpperA + 10

RECURSIVE parseHexUint_ext(_)
\* a parser that drops a chunk extension before it reads the digits
parseHexUint_ext(v) ==
    IF v = <<>>
    THEN [n |-> 0, err |-> "nil"]
    ELSE IF \E i \in 1..Len(v) : v[i] = Semi
    THEN parseHexUint_ext(SubSeq(v, 1, Len(v) - 1))
    ELSE LET r == parseHexUint_ext(SubSeq(v, 1, Len(v) - 1))
             b == v[Len(v)]
         IN  IF r.err # "nil" THEN r
             ELSE IF ~isHexDigit(b) THEN [n |-> 0, err |-> "invalid chunk length"]
             ELSE [n |-> r.n * 16 + hexDigitValue(b), err |-> "nil"]

RECURSIVE parseHexUint(_)
\* n and err of parseHexUint(v); the size lines of the model have so few
\* significant digits that the shift drops no bit of the uint64
parseHexUint(v) ==
    IF v = <<>>
    THEN [n |-> 0, err |-> "nil"]
    ELSE LET r == parseHexUint(SubSeq(v, 1, Len(v) - 1))
             b == v[Len(v)]
         IN  IF r.err # "nil" THEN r
             ELSE IF ~isHexDigit(b) THEN [n |-> 0, err |-> "invalid chunk length"]
             ELSE [n |-> r.n * 16 + hexDigitValue(b), err |-> "nil"]

\* chunkedReader.beginChunk on reader state r
beginChunk(s, r) ==
    LET l == readLine(s, r.pos)
        h == parseHexUint(l.p)
    IN  IF l.err # "nil" THEN [n |-> r.n, err |-> l.err, pos |-> l.pos]
        ELSE IF h.err # "nil" THEN [n |-> 0, err |-> h.err, pos |-> l.pos]
        ELSE IF h.n = 0 THEN [n |-> 0, err |-> "EOF", pos |-> l.pos]
        ELSE [n |-> h.n, err |-> "nil", pos |-> l.pos]

\* an end of chunk that leaves the CRLF behind the data unread
endOfChunk_unread(s, r) == r

\* chunkedReader.Read, end of chunk: io.ReadFull of two bytes, which must be CR LF
endOfChunk(s, r) ==
    LET have == Len(s) - r.pos
    IN  IF have = 0 THEN [r EXCEPT !.err = "EOF"]
        ELSE IF have = 1 THEN [r EXCEPT !.err = "ErrUnexpectedEOF", !.pos = @ + 1]
        ELSE IF s[r.pos + 1] # CR \/ s[r.pos + 2] # LF
        THEN [r EXCEPT !.err = "malformed chunked encoding", !.pos = @ + 2]
        ELSE [r EXCEPT !.pos = @ + 2]

\* what cr.r.Read(b) may return for len(b) = m with pos bytes of s consumed:
\* nothing for an empty b, io.EOF at the end of the stream, else at least one
\* and at most m of the bytes left
bufioReads(s, pos, m) ==
    IF m = 0 THEN {<<0, "nil">>}
    ELSE IF pos = Len(s) THEN {<<0, "EOF">>}
    ELSE {<<k, "nil">> : k \in 1..(IF m < Len(s) - pos THEN m ELSE Len(s) - pos)}

\* a reader that gives up for good at io.EOF only
stickyErr_eofOnly(r) == r.err = "EOF"

\* chunkedReader.Read: an error stored in cr.err ends every later Read at once
stickyErr(r) == r.err # "nil"

\* chunkedReader.Read(b) with len(b) = lenb, the bufio.Reader returning rd
chunkedReader_Read(lenb, rd) ==
    IF stickyErr(cr)
    THEN /\ ret' = <<0, cr.err>>
         /\ UNCHANGED <<cr, out>>
    ELSE LET r1 == IF cr.n = 0 THEN beginChunk(stream, cr) ELSE cr
         IN  IF r1.err # "nil"
             THEN /\ cr' = r1
                  /\ ret' = <<0, r1.err>>
                  /\ UNCHANGED out
             ELSE LET m == IF lenb > r1.n THEN r1.n ELSE lenb
                  IN  /\ rd \in bufioReads(stream, r1.pos, m)
                      /\ LET r2 == [n |-> r1.n - rd[1], err |-> rd[2], pos |-> r1.pos + rd[1]]
                             r3 == IF r2.n = 0 /\ r2.err = "nil"
                                   THEN endOfChunk(stream, r2) ELSE r2
                         IN  /\ cr' = r3
                             /\ out' = out \o SubSeq(stream, r1.pos + 1, r1.pos + rd[1])
                             /\ ret' = <<rd[1], r3.err>>

\* one Read call of the reader's user
Read(lenb, rd) ==
    /\ input # NoInput
    /\ chunkedReader_Read(lenb, rd)
    /\ UNCHANGED <<srvVars, connVars, input, stream, cwVars, muxVars, dlVars>>

(***************************************************************************)
(* What travels on a connection: a sequence of sections. r is the number   *)
(* of the request the section answers; an "icap" section is the status     *)
(* line with the ICAP headers (its Encapsulated and Connection values      *)
(* kept as fields), a "head" section the serialized embedded HTTP head     *)
(* and a "body" section raw bytes of the chunked body.                     *)
(***************************************************************************)
Tok(r, sec, code, encap, close, b) ==
    [r |-> r, sec |-> sec, code |-> code, encap |-> encap, close |-> close, b |-> b]

AppendBytes(q, r, b) ==
    IF b = <<>> THEN q ELSE Append(q, Tok(r, "body", 0, <<>>, FALSE, b))

\* the serialized HTTP head embedded in a request, and the header line a
\* handler adds to it
Head0 == <<ByteH, ByteH>>
AddedHeader == <<ByteH>>

Methods == {"REQMOD", "RESPMOD", "OPTIONS", "FROB"}

\* the embedded HTTP message a request of this method carries
EmbeddedOf(method) ==
    CASE method = "REQMOD" -> "req"
      [] method = "RESPMOD" -> "res"
      [] OTHER -> "nil"

NoWriter ==
    [wroteHeader |-> FALSE, code |-> 0, embedded |-> "nil", hasBody |-> FALSE,
     cw |-> FALSE, method |-> "none", head |-> <<>>]

\* a writer that is born with its header latch set
newRespWriter_latched(c, method) ==
    [wroteHeader |-> TRUE, code |-> 0, embedded |-> "nil",
     hasBody |-> FALSE, cw |-> FALSE, method |-> method,
     head |-> IF EmbeddedOf(method) = "nil" THEN <<>> ELSE Head0]

\* conn.readRequest: w = new(respWriter) with the request attached
newRespWriter(c, method) ==
    [wroteHeader |-> FALSE, code |-> 0, embedded |-> "nil", hasBody |-> FALSE,
     cw |-> FALSE, method |-> method,
     head |-> IF EmbeddedOf(method) = "nil" THEN <<>> ELSE Head0]

(***************************************************************************)
(* The response writer (write_header, write, finish).                      *)
(***************************************************************************)
\* the recomputed Encapsulated section list
Encapsulated(msg, hasBody, len) ==
    IF msg = "nil"
    THEN << <<"null-body", 0>> >>
    ELSE << <<msg \o "-hdr", 0>>,
            <<IF hasBody THEN msg \o "-body" ELSE "null-body", len>> >>

\* codes for which no encapsulated section and no body is emitted
Bodyless(code) == code \in {100, 204}

\* an Encapsulated list that echoes the offset of the request as received
HeaderSections_echoed(c, code, msg, hasBody, close) ==
    LET m == IF Bodyless(code) THEN "nil" ELSE msg
    IN  <<Tok(nRead[c], "icap", code,
              Encapsulated(m, hasBody /\ ~Bodyless(code), Len(Head0)), close, <<>>)>>
        \o (IF m = "nil" THEN <<>>
            ELSE <<Tok(nRead[c], "head", 0, <<>>, FALSE, w[c].head)>>)

\* a header block that serializes the embedded message whatever the code
HeaderSections_always(c, code, msg, hasBody, close) ==
    <<Tok(nRead[c], "icap", code, Encapsulated(msg, hasBody, Len(w[c].head)), close, <<>>)>>
    \o (IF msg = "nil" THEN <<>>
        ELSE <<Tok(nRead[c], "head", 0, <<>>, FALSE, w[c].head)>>)

\* write_header: status line, ICAP headers, Encapsulated, embedded head
HeaderSections(c, code, msg, hasBody, close) ==
    LET m == IF Bodyless(code) THEN "nil" ELSE msg
    IN  <<Tok(nRead[c], "icap", code,
              Encapsulated(m, hasBody /\ ~Bodyless(code), Len(w[c].head)), close, <<>>)>>
        \o (IF m = "nil" THEN <<>>
            ELSE <<Tok(nRead[c], "head", 0, <<>>, FALSE, w[c].head)>>)

\* finish: close the chunked stream, then the bare CRLF
FinishSections(c) ==
    IF w[c].cw
    THEN AppendBytes(AppendBytes(<<>>, nRead[c], chunkedWriter_Close), nRead[c], <<CR, LF>>)
    ELSE <<>>

(***************************************************************************)
(* The handler: user code running inside ServeICAP, one call at a time.    *)
(***************************************************************************)
\* the arguments a handler passes to WriteHeader for the request at hand
HeaderArgs(c) ==
    {a \in {200, 204} \X {"nil", EmbeddedOf(w[c].method)} \X BOOLEAN \X BOOLEAN :
        (a[2] = "nil" /\ ~Bodyless(a[1])) => ~a[3]}

\* the buffers a handler passes to Write
DataBufs == {<<>>, <<ByteX>>}

\* body sections of the request in progress that sit in the bufio.Writer
BodySections(c) == SelectSeq(bw[c], LAMBDA t : t.sec = "body" /\ t.r = nRead[c])

\* the handler adds a header to the embedded HTTP message
HandlerModify(c) ==
    /\ pc[c] = "handler"
    /\ EmbeddedOf(w[c].method) # "nil"
    /\ ~w[c].wroteHeader
    /\ w[c].head = Head0
    /\ w' = [w EXCEPT ![c].head = @ \o AddedHeader]
    /\ UNCHANGED <<srvVars, pc, rwcClose, bufNil, nRead, nRet, nFin, bw, wire, lastWrite, readErr>>
    /\ UNCHANGED <<rdVars, cwVars, muxVars, dlVars>>

\* w.WriteHeader(code, msg, hasBody)
HandlerWriteHeader(c, code, msg, hasBody, close) ==
    /\ pc[c] = "handler"
    /\ IF w[c].wroteHeader
       THEN /\ w' = w
            /\ bw' = bw
       ELSE /\ w' = [w EXCEPT ![c].wroteHeader = TRUE,
                              ![c].code = code,
                              ![c].embedded = msg,
                              ![c].hasBody = hasBody,
                              ![c].cw = hasBody /\ ~Bodyless(code)]
            /\ bw' = [bw EXCEPT ![c] = @ \o HeaderSections(c, code, msg, hasBody, close)]
    /\ UNCHANGED <<srvVars, pc, rwcClose, bufNil, nRead, nRet, nFin, wire, lastWrite, readErr>>
    /\ UNCHANGED <<rdVars, cwVars, muxVars, dlVars>>

\* w.Write(data)
HandlerWrite(c, data) ==
    /\ pc[c] = "handler"
    /\ Len(BodySections(c)) < MaxWrites
    /\ IF ~w[c].wroteHeader
       THEN /\ lastWrite' = [lastWrite EXCEPT ![c] = "header not written"]
            /\ bw' = bw
       ELSE IF ~w[c].cw
       THEN /\ lastWrite' = [lastWrite EXCEPT ![c] = "no body"]
            /\ bw' = bw
       ELSE /\ lastWrite' = [lastWrite EXCEPT ![c] = "nil"]
            /\ bw' = [bw EXCEPT ![c] = AppendBytes(@, nRead[c], chunkedWriter_Write(data))]
    /\ UNCHANGED <<srvVars, pc, rwcClose, bufNil, nRead, nRet, nFin, w, wire, readErr>>
    /\ UNCHANGED <<rdVars, cwVars, muxVars, dlVars>>

\* the handler reads from req.Request.Body, the chunkedReader on c.buf that
\* the first request read on the connection is bound to
HandlerReadBody(c, lenb, rd) ==
    /\ pc[c] = "handler"
    /\ nRead[c] = 1
    /\ input # NoInput
    /\ chunkedReader_Read(lenb, rd)
    /\ UNCHANGED <<srvVars, connVars, input, stream, cwVars, muxVars, dlVars>>

\* ServeICAP returns
HandlerReturn(c) ==
    /\ pc[c] = "handler"
    /\ pc' = [pc EXCEPT ![c] = "finish"]
    /\ nRet' = [nRet EXCEPT ![c] = @ + 1]
    /\ lastWrite' = [lastWrite EXCEPT ![c] = "none"]
    /\ UNCHANGED <<srvVars, rwcClose, bufNil, nRead, nFin, w, bw, wire, readErr>>
    /\ UNCHANGED <<rdVars, cwVars, muxVars, dlVars>>

(***************************************************************************)
(* server.go: conn.                                                        *)
(***************************************************************************)
\* a loop that reads ahead while the previous request is still being served
serve_atLoopTop_pipelined(c) == pc[c] \in {"read", "handler", "finish"}

\* conn.serve: the for loop is at readRequest only after finishRequest returned
serve_atLoopTop(c) == pc[c] = "read"

\* a panic that is not recovered takes the whole process down
serve_recover_missing(c) ==
    /\ pc' = [d \in Conns |-> IF pc[d] = "none" THEN "none" ELSE "crashed"]
    /\ servePc' = "crashed"
    /\ UNCHANGED <<lClosed, accepted, timeouts, serveRet>>

\* conn.serve, the deferred function: recover, log, return (c.close is skipped)
serve_recover(c) ==
    /\ pc' = [pc EXCEPT ![c] = "panicked"]
    /\ UNCHANGED srvVars

\* a close that flushes and forgets the connection without closing the socket
conn_close_open(c, k) ==
    /\ bufNil' = [bufNil EXCEPT ![c] = TRUE]
    /\ bw' = [bw EXCEPT ![c] = <<>>]
    /\ wire' = [wire EXCEPT ![c] = IF ~bufNil[c] /\ rwcClose[c] = 0 THEN @ \o bw[c] ELSE @]
    /\ rwcClose' = rwcClose

\* conn.close after k earlier Close calls on c.rwc in the same step:
\* flush and drop c.buf, close and drop c.rwc (both are nil together)
conn_close(c, k) ==
    /\ bufNil' = [bufNil EXCEPT ![c] = TRUE]
    /\ bw' = [bw EXCEPT ![c] = <<>>]
    /\ wire' = [wire EXCEPT ![c] =
                  IF ~bufNil[c] /\ rwcClose[c] + k = 0 THEN @ \o bw[c] ELSE @]
    /\ rwcClose' = [rwcClose EXCEPT ![c] = IF bufNil[c] THEN @ + k ELSE @ + k + 1]

\* a core that answers the methods it does not know by itself
ServeRead_preempt(c, method) ==
    /\ serve_atLoopTop(c)
    /\ nRead[c] < MaxReqs
    /\ nRead' = [nRead EXCEPT ![c] = @ + 1]
    /\ w' = [w EXCEPT ![c] = newRespWriter(c, method)]
    /\ lastWrite' = [lastWrite EXCEPT ![c] = "none"]
    /\ IF method \in {"REQMOD", "RESPMOD", "OPTIONS"}
       THEN /\ pc' = [pc EXCEPT ![c] = "handler"]
            /\ bw' = bw
       ELSE /\ pc' = [pc EXCEPT ![c] = "read"]
            /\ bw' = [bw EXCEPT ![c] =
                        Append(@, Tok(nRead[c] + 1, "icap", 405, <<>>, TRUE, <<>>))]
    /\ UNCHANGED <<srvVars, rwcClose, bufNil, nRet, nFin, wire, readErr>>
    /\ UNCHANGED <<rdVars, cwVars, muxVars, dlVars>>

\* the read deadline of c.rwc has passed: a Read of the socket fails
Expired(c) == deadline[c] # 0 /\ now >= deadline[c]

\* serve: readRequest returned a writer; the handler is entered. The empty
\* bufio.Reader was filled from the socket with the bytes of this one request
ServeRead(c, method) ==
    /\ serve_atLoopTop(c)
    /\ buffered[c] = 0
    /\ ~Expired(c)
    /\ nRead[c] < MaxReqs
    /\ nRead' = [nRead EXCEPT ![c] = @ + 1]
    /\ w' = [w EXCEPT ![c] = newRespWriter(c, method)]
    /\ lastWrite' = [lastWrite EXCEPT ![c] = "none"]
    /\ pc' = [pc EXCEPT ![c] = "handler"]
    /\ readAt' = [readAt EXCEPT ![c] = now]
    /\ UNCHANGED <<srvVars, rwcClose, bufNil, nRet, nFin, bw, wire, readErr>>
    /\ UNCHANGED <<rdVars, cwVars, muxVars, readTimeout, now, deadline, buffered>>

\* serve: readRequest returned a writer, and the fill of the bufio.Reader
\* took the bytes of k further requests the client had pipelined behind it
ServeReadPipelined(c, method, k) ==
    /\ serve_atLoopTop(c)
    /\ buffered[c] = 0
    /\ ~Expired(c)
    /\ k >= 1
    /\ nRead[c] + k < MaxReqs
    /\ buffered' = [buffered EXCEPT ![c] = k]
    /\ nRead' = [nRead EXCEPT ![c] = @ + 1]
    /\ w' = [w EXCEPT ![c] = newRespWriter(c, method)]
    /\ lastWrite' = [lastWrite EXCEPT ![c] = "none"]
    /\ pc' = [pc EXCEPT ![c] = "handler"]
    /\ readAt' = [readAt EXCEPT ![c] = now]
    /\ UNCHANGED <<srvVars, rwcClose, bufNil, nRet, nFin, bw, wire, readErr>>
    /\ UNCHANGED <<rdVars, cwVars, muxVars, readTimeout, now, deadline>>

\* serve: readRequest returned a writer for a request the bufio.Reader held
\* whole: the socket is not read, its deadline is not met
ServeReadBuffered(c, method) ==
    /\ serve_atLoopTop(c)
    /\ buffered[c] > 0
    /\ nRead[c] < MaxReqs
    /\ buffered' = [buffered EXCEPT ![c] = @ - 1]
    /\ nRead' = [nRead EXCEPT ![c] = @ + 1]
    /\ w' = [w EXCEPT ![c] = newRespWriter(c, method)]
    /\ lastWrite' = [lastWrite EXCEPT ![c] = "none"]
    /\ pc' = [pc EXCEPT ![c] = "handler"]
    /\ readAt' = [readAt EXCEPT ![c] = now]
    /\ UNCHANGED <<srvVars, rwcClose, bufNil, nRet, nFin, bw, wire, readErr>>
    /\ UNCHANGED <<rdVars, cwVars, muxVars, readTimeout, now, deadline>>

\* a loop that logs the error and tries the next request
ServeReadFail_retry(c, err) ==
    /\ serve_atLoopTop(c)
    /\ readErr[c] # err
    /\ readErr' = [readErr EXCEPT ![c] = err]
    /\ UNCHANGED <<srvVars, pc, rwcClose, bufNil, nRead, nRet, nFin, w, bw, wire, lastWrite>>
    /\ UNCHANGED <<rdVars, cwVars, muxVars, dlVars>>

\* serve: ReadRequest failed, readRequest returned (nil, err):
\* c.rwc.Close(), break, c.close(). The read that failed was one of the
\* socket: the stream ended, was malformed, or the read deadline passed
ServeReadFail(c, err) ==
    /\ serve_atLoopTop(c)
    /\ buffered[c] = 0
    /\ readErr' = [readErr EXCEPT ![c] = err]
    /\ pc' = [pc EXCEPT ![c] = "exit"]
    /\ conn_close(c, 1)
    /\ readAt' = [readAt EXCEPT ![c] = now]
    /\ UNCHANGED <<srvVars, nRead, nRet, nFin, w, lastWrite>>
    /\ UNCHANGED <<rdVars, cwVars, muxVars, readTimeout, now, deadline, buffered>>

\* the whitespace-separated tokens of a line
NumTokens(p) ==
    Cardinality({i \in 1..Len(p) : p[i] # Space /\ (i = 1 \/ p[i - 1] = Space)})

RECURSIVE HeaderBlock(_, _)
\* read header lines at pos until an empty line: the error, and the bytes
\* consumed afterwards
HeaderBlock(s, pos) ==
    LET l == readLine(s, pos)
    IN  IF l.err # "nil" THEN [err |-> l.err, pos |-> l.pos]
        ELSE IF l.p = <<>> THEN [err |-> "nil", pos |-> l.pos]
        ELSE HeaderBlock(s, l.pos)

\* read_request at pos bytes of the connection's stream s: a start-line of
\* three tokens, then the header block; an I/O error when the stream ends
ReadRequest(s, pos) ==
    LET l == readLine(s, pos)
        h == HeaderBlock(s, l.pos)
    IN  IF l.err = "ErrUnexpectedEOF" THEN [err |-> "io", pos |-> l.pos]
        ELSE IF l.err # "nil" \/ NumTokens(l.p) # 3 THEN [err |-> "protocol", pos |-> l.pos]
        ELSE IF h.err = "ErrUnexpectedEOF" THEN [err |-> "io", pos |-> h.pos]
        ELSE IF h.err # "nil" THEN [err |-> "protocol", pos |-> h.pos]
        ELSE [err |-> "nil", pos |-> h.pos]

\* serve: readRequest for the next request of a connection whose earlier
\* request had its body bound to the connection's reader; ReadRequest goes on
\* where the reads of that body stopped
ServeReadNext(c) ==
    /\ serve_atLoopTop(c)
    /\ nRead[c] >= 1
    /\ input # NoInput
    /\ LET r == ReadRequest(stream, cr.pos)
       IN  IF r.err # "nil"
           THEN ServeReadFail(c, r.err)
           ELSE /\ nRead[c] < MaxReqs
                /\ nRead' = [nRead EXCEPT ![c] = @ + 1]
                /\ w' = [w EXCEPT ![c] = newRespWriter(c, "OPTIONS")]
                /\ lastWrite' = [lastWrite EXCEPT ![c] = "none"]
                /\ pc' = [pc EXCEPT ![c] = "handler"]
                /\ cr' = [n |-> 0, err |-> "nil", pos |-> r.pos]
                /\ readAt' = [readAt EXCEPT ![c] = now]
                /\ UNCHANGED <<srvVars, rwcClose, bufNil, nRet, nFin, bw, wire, readErr>>
                /\ UNCHANGED <<input, stream, out, ret, cwVars, muxVars>>
                /\ UNCHANGED <<readTimeout, now, deadline, buffered>>

\* the handler panics inside ServeICAP
HandlerPanic(c) ==
    /\ pc[c] = "handler"
    /\ serve_recover(c)
    /\ UNCHANGED <<rwcClose, bufNil, nRead, nRet, nFin, w, bw, wire, lastWrite, readErr>>
    /\ UNCHANGED <<rdVars, cwVars, muxVars, dlVars>>

\* conn.serve: behind finishRequest the for loop has no exit, whatever the
\* response said
serve_afterFinish(c) == "read"

\* a loop that gives every request a read deadline of its own
serve_readDeadline_rearmed(c) == IF readTimeout # 0 THEN now + readTimeout ELSE deadline[c]

\* conn.serve calls no SetReadDeadline: the deadline of c.rwc stays as it is
serve_readDeadline(c) == deadline[c]

\* serve: w.finishRequest(), then the loop starts over
FinishRequest(c) ==
    /\ pc[c] = "finish"
    /\ wire' = [wire EXCEPT ![c] = @ \o bw[c] \o FinishSections(c)]
    /\ bw' = [bw EXCEPT ![c] = <<>>]
    /\ w' = [w EXCEPT ![c] = NoWriter]
    /\ nFin' = [nFin EXCEPT ![c] = @ + 1]
    /\ pc' = [pc EXCEPT ![c] = serve_afterFinish(c)]
    /\ deadline' = [deadline EXCEPT ![c] = serve_readDeadline(c)]
    /\ UNCHANGED <<srvVars, rwcClose, bufNil, nRead, nRet, lastWrite, readErr>>
    /\ UNCHANGED <<rdVars, cwVars, muxVars, readTimeout, now, buffered, readAt>>

(***************************************************************************)
(* server.go: Server.Serve.                                                *)
(***************************************************************************)
\* Serve, behind Accept: with a ReadTimeout, rw.SetReadDeadline(time.Now()
\* .Add(srv.ReadTimeout)); when the call fails the error is logged and the
\* connection is served without a deadline
Serve_setReadDeadline(c) ==
    IF readTimeout # 0
    THEN \E ok \in BOOLEAN :
            deadline' = [deadline EXCEPT ![c] = IF ok THEN now + readTimeout ELSE @]
    ELSE deadline' = deadline

\* a Serve that calls c.serve without the go statement
Accept_inline ==
    /\ servePc = "accept"
    /\ accepted < MaxConns
    /\ \A c \in 1..accepted : pc[c] \in {"exit", "panicked"}
    /\ accepted' = accepted + 1
    /\ pc' = [pc EXCEPT ![accepted + 1] = "read"]
    /\ Serve_setReadDeadline(accepted + 1)
    /\ UNCHANGED <<servePc, lClosed, timeouts, serveRet, rwcClose, bufNil, nRead, nRet, nFin,
                   w, bw, wire, lastWrite, readErr>>
    /\ UNCHANGED <<rdVars, cwVars, muxVars, readTimeout, now, buffered, readAt>>

\* l.Accept returned a connection: newConn, go c.serve
Accept ==
    /\ servePc = "accept"
    /\ accepted < MaxConns
    /\ accepted' = accepted + 1
    /\ pc' = [pc EXCEPT ![accepted + 1] = "read"]
    /\ Serve_setReadDeadline(accepted + 1)
    /\ UNCHANGED <<servePc, lClosed, timeouts, serveRet, rwcClose, bufNil, nRead, nRet, nFin,
                   w, bw, wire, lastWrite, readErr>>
    /\ UNCHANGED <<rdVars, cwVars, muxVars, readTimeout, now, buffered, readAt>>

\* a Serve that returns on every Accept error
AcceptTimeout_fatal ==
    /\ servePc = "accept"
    /\ timeouts < MaxTimeouts
    /\ timeouts' = timeouts + 1
    /\ servePc' = "returned"
    /\ serveRet' = "timeout"
    /\ lClosed' = TRUE
    /\ UNCHANGED <<accepted, connVars>>
    /\ UNCHANGED <<rdVars, cwVars, muxVars, dlVars>>

\* l.Accept returned a net.Error with Timeout(): sleep 5 ms
AcceptTimeout ==
    /\ servePc = "accept"
    /\ timeouts < MaxTimeouts
    /\ timeouts' = timeouts + 1
    /\ servePc' = "sleep"
    /\ UNCHANGED <<lClosed, accepted, serveRet, connVars>>
    /\ UNCHANGED <<rdVars, cwVars, muxVars, dlVars>>

\* the 5 ms are over: continue
AcceptRetry ==
    /\ servePc = "sleep"
    /\ servePc' = "accept"
    /\ UNCHANGED <<lClosed, accepted, timeouts, serveRet, connVars>>
    /\ UNCHANGED <<rdVars, cwVars, muxVars, dlVars>>

\* time passes
Tick ==
    /\ now < MaxTime
    /\ now' = now + 1
    /\ UNCHANGED <<srvVars, connVars, rdVars, cwVars, muxVars, readTimeout, deadline, buffered, readAt>>

\* the errors of l.Accept that are no timeout: the listener was closed, the
\* process is out of file descriptors
AcceptErrors == {"closed", "emfile"}

\* l.Accept returned any other error: return err, the deferred l.Close runs
AcceptError(err) ==
    /\ servePc = "accept"
    /\ servePc' = "returned"
    /\ serveRet' = err
    /\ lClosed' = TRUE
    /\ UNCHANGED <<accepted, timeouts, connVars>>
    /\ UNCHANGED <<rdVars, cwVars, muxVars, dlVars>>

(***************************************************************************)
(* The handler of the server: srv.Handler, or the process-wide default mux *)
(* that HandleFunc registers on.                                           *)
(***************************************************************************)
Paths == {"/modify", "/server"}
HandlerIds == {"handleRequestModification", "handleResponseModification"}

\* a mux with no registration
NoMux == [p \in Paths |-> "none"]

\* a Serve that takes a copy of the default mux's registrations
Serve_handler_copied(h, m) ==
    IF h = "nil" THEN [of |-> h, kind |-> "copy", snap |-> m]
    ELSE [of |-> h, kind |-> "user", snap |-> NoMux]

\* Server.Serve: handler := srv.Handler; if nil, the pointer DefaultServeMux
Serve_handler(h, m) ==
    IF h = "nil" THEN [of |-> h, kind |-> "DefaultServeMux", snap |-> NoMux]
    ELSE [of |-> h, kind |-> "user", snap |-> NoMux]

\* ServeMux.ServeICAP: exact match of the path, 404 on a miss
ServeMux_ServeICAP(m, path) == IF m[path] = "none" THEN "NotFound" ELSE m[path]

\* the handler function c.handler.ServeICAP ends in for a request of this path
Resolve(path) ==
    CASE handler.kind = "DefaultServeMux" -> ServeMux_ServeICAP(mux, path)
      [] handler.kind = "copy" -> ServeMux_ServeICAP(handler.snap, path)
      [] OTHER -> handler.of

\* serve: c.handler.ServeICAP(w, w.req) is called for the request just read
ServeICAP(c, path) ==
    /\ pc[c] = "handler"
    /\ Len(invoked[c]) < nRead[c]
    /\ invoked' = [invoked EXCEPT ![c] = Append(@, [path |-> path, h |-> Resolve(path)])]
    /\ UNCHANGED <<srvVars, connVars, rdVars, cwVars, mux, handler, dlVars>>

\* HandleFunc(path, h): register, or register anew, on the default mux
HandleFunc(path, h) ==
    /\ mux[path] # h
    /\ mux' = [mux EXCEPT ![path] = h]
    /\ UNCHANGED <<srvVars, connVars, rdVars, cwVars, handler, invoked, dlVars>>

(***************************************************************************)
(* The chunked streams the reader is given: chunks of the payloads below,  *)
(* framed as `hex-size CRLF data CRLF` and ended by a zero-size chunk line *)
(* and a tail, or one such stream with a fault in chunk number `at`.       *)
(***************************************************************************)
\* payloads: a byte, bytes that look like the last chunk, and lengths whose
\* hex size has a letter and two digits
Payloads == {<<ByteX>>, <<Zero, CR, LF>>, Rep(10, ByteX), Rep(17, ByteX)}

\* how the size is written: as %x writes it, in upper case, with a leading zero
Styles == {"lower", "upper", "padded"}

\* what follows the zero-size chunk line
Tails == {<<>>, <<CR, LF>>}

\* faults in the data of chunk `at`.  extra: one data byte more than
\* declared; short: one less, then the CRLF; cut: the stream ends one byte
\* before the declared data is complete; cutcrlf: it ends behind the data;
\* cutcr: it ends between the CR and the LF behind the data
DataFaults == {"extra", "short", "cut", "cutcrlf", "cutcr"}

\* faults in the size line of chunk `at`, the zero-size chunk counted.
\* badsize: no hex number; empty: nothing before the CRLF; blank: a space
\* before the CRLF; ext: a chunk extension behind the size; cutline: the
\* stream ends behind the digits
LineFaults == {"badsize", "empty", "blank", "ext", "cutline"}

\* the faults behind which the stream ends
CutFaults == {"cut", "cutcrlf", "cutcr", "cutline"}

Faults == {"none"} \cup DataFaults \cup LineFaults

ChunkLists == UNION {[1..n -> Payloads] : n \in 0..MaxChunks}

Inputs ==
    {in \in [chunks : ChunkLists, style : Styles, tail : Tails, fault : Faults,
             at : 0..(MaxChunks + 1)] :
        CASE in.fault = "none" -> in.at = 0
          [] in.fault \in DataFaults -> in.at \in 1..Len(in.chunks) /\ in.tail = <<CR, LF>>
          [] OTHER -> in.at \in 1..(Len(in.chunks) + 1) /\ in.tail = <<CR, LF>>}

\* long: so many leading zeros that the line exceeds maxLineLength and has
\* no LF within the reader's buffer; edge: leading zeros that make the line,
\* its CRLF included, exactly maxLineLength bytes
SizeLine(n, style) ==
    LET h == Hex(n)
    IN  (CASE style = "upper" ->
                [i \in 1..Len(h) |-> IF h[i] >= LowerA THEN h[i] - LowerA + UpperA ELSE h[i]]
           [] style = "padded" -> <<Zero>> \o h
           [] style = "long" -> Rep(maxLineLength, Zero) \o h
           [] style = "edge" -> Rep(maxLineLength - 2 - Len(h), Zero) \o h
           [] OTHER -> h) \o <<CR, LF>>

\* the size line of chunk i of input in, which declares n bytes
Line(in, i, n) ==
    LET l == SizeLine(n, in.style)
        digits == SubSeq(l, 1, Len(l) - 2)
    IN  IF in.at # i THEN l
        ELSE CASE in.fault = "badsize" -> <<ByteX, ByteX, CR, LF>>
               [] in.fault = "empty" -> <<CR, LF>>
               [] in.fault = "blank" -> <<Space, CR, LF>>
               [] in.fault = "ext" -> digits \o <<Semi, Space, ByteX, CR, LF>>
               [] in.fault = "cutline" -> digits
               [] OTHER -> l

\* the bytes of chunk i of input in; chunk Len(in.chunks) + 1 is the
\* zero-size chunk line
ChunkBytes(in, i) ==
    IF i > Len(in.chunks) THEN Line(in, i, 0)
    ELSE LET p == in.chunks[i]
             line == Line(in, i, Len(p))
         IN  IF in.at # i THEN line \o p \o <<CR, LF>>
             ELSE CASE in.fault = "extra" -> line \o p \o <<ByteX>> \o <<CR, LF>>
                    [] in.fault = "short" -> line \o SubSeq(p, 1, Len(p) - 1) \o <<CR, LF>>
                    [] in.fault = "cut" -> line \o SubSeq(p, 1, Len(p) - 1)
                    [] in.fault = "cutcrlf" -> line \o p
                    [] in.fault = "cutcr" -> line \o p \o <<CR>>
                    [] in.fault = "cutline" -> line
                    [] OTHER -> line \o p \o <<CR, LF>>

RECURSIVE ChunksUpTo(_, _)
ChunksUpTo(in, i) == IF i = 0 THEN <<>> ELSE ChunksUpTo(in, i - 1) \o ChunkBytes(in, i)

Stream(in) ==
    IF in.fault \in CutFaults
    THEN ChunksUpTo(in, in.at)
    ELSE ChunksUpTo(in, Len(in.chunks) + 1) \o in.tail

RECURSIVE Concat(_)
\* the payloads of a chunk list one after the other
Concat(chunks) ==
    IF chunks = <<>> THEN <<>>
    ELSE Concat(SubSeq(chunks, 1, Len(chunks) - 1)) \o chunks[Len(chunks)]

\* the head of an ICAP request without encapsulated sections: a start-line
\* of three tokens and an empty header block
ReqHead == <<ByteH, Space, ByteH, Space, ByteH, CR, LF, CR, LF>>

\* payloads of a request body: a byte, ten bytes, and a byte followed by
\* bytes that read like the head of a request
BodyPayloads == {<<ByteX>>, Rep(10, ByteX), <<ByteX>> \o ReqHead}

\* the chunked bodies a request carries on a connection, and what the client
\* sends behind them before it closes: well-formed bodies, and ones whose
\* size lines are too long; nothing, or one more request
BodyInputs ==
    [chunks : UNION {[1..n -> BodyPayloads] : n \in 0..MaxChunks},
     style : {"lower", "long", "edge"}, tail : {<<CR, LF>>, <<CR, LF>> \o ReqHead},
     fault : {"none"}, at : {0}]

IsPrefix(a, b) == Len(a) <= Len(b) /\ a = SubSeq(b, 1, Len(a))

(***************************************************************************)
(* Specifications.                                                         *)
(***************************************************************************)
ReadErrors == {"protocol", "io"}

\* a server whose ReadTimeout is rt, at time 0, no deadline set on any socket
InitDeadlines(rt) ==
    /\ readTimeout = rt
    /\ now = 0
    /\ deadline = [c \in Conns |-> 0]
    /\ buffered = [c \in Conns |-> 0]
    /\ readAt = [c \in Conns |-> 0]

\* a server without ReadTimeout that has accepted n connections
InitConns(n) ==
    /\ InitDeadlines(0)
    /\ servePc = "accept"
    /\ lClosed = FALSE
    /\ accepted = n
    /\ timeouts = 0
    /\ serveRet = "none"
    /\ pc = [c \in Conns |-> IF c <= n THEN "read" ELSE "none"]
    /\ rwcClose = [c \in Conns |-> 0]
    /\ bufNil = [c \in Conns |-> FALSE]
    /\ nRead = [c \in Conns |-> 0]
    /\ nRet = [c \in Conns |-> 0]
    /\ nFin = [c \in Conns |-> 0]
    /\ w = [c \in Conns |-> NoWriter]
    /\ bw = [c \in Conns |-> <<>>]
    /\ wire = [c \in Conns |-> <<>>]
    /\ lastWrite = [c \in Conns |-> "none"]
    /\ readErr = [c \in Conns |-> "none"]
    /\ mux = NoMux
    /\ handler = Serve_handler("nil", NoMux)
    /\ invoked = [c \in Conns |-> <<>>]

\* a new chunkedReader on a bufio.Reader over the bytes of input in
InitChunked(in) ==
    /\ input = in
    /\ stream = IF in = NoInput THEN <<>> ELSE Stream(in)
    /\ cr = [n |-> 0, err |-> "nil", pos |-> 0]
    /\ out = <<>>
    /\ ret = <<0, "nil">>

\* a new chunkedWriter on an io.Writer that has taken nothing yet
InitChunkedWriter ==
    /\ Wire = <<>>
    /\ wret = <<0, "nil">>
    /\ wops = 0
    /\ wclosed = FALSE

\* Serve has accepted one connection and started its goroutine
InitConn == InitConns(1) /\ InitChunked(NoInput) /\ InitChunkedWriter

\* one connection with a handler that may do anything a handler can
NextConn ==
    \/ \E method \in Methods : ServeRead(1, method)
    \/ \E err \in ReadErrors : ServeReadFail(1, err)
    \/ HandlerModify(1)
    \/ \E a \in HeaderArgs(1) : HandlerWriteHeader(1, a[1], a[2], a[3], a[4])
    \/ \E data \in DataBufs : HandlerWrite(1, data)
    \/ HandlerReturn(1)
    \/ HandlerPanic(1)
    \/ FinishRequest(1)

SpecConn == InitConn /\ [][NextConn]_vars

\* Serve is called on an open listener
InitServer == InitConns(0) /\ InitChunked(NoInput) /\ InitChunkedWriter

\* the accept loop and its connections, with the handler of the README:
\* WriteHeader(204, nil, false), or a fault
NextServer ==
    \/ Accept
    \/ AcceptTimeout
    \/ AcceptRetry
    \/ \E err \in AcceptErrors : AcceptError(err)
    \/ \E c \in Conns :
        \/ ServeRead(c, "REQMOD")
        \/ \E err \in ReadErrors : ServeReadFail(c, err)
        \/ HandlerWriteHeader(c, 204, "nil", FALSE, TRUE)
        \/ HandlerReturn(c)
        \/ HandlerPanic(c)
        \/ FinishRequest(c)

SpecServer == InitServer /\ [][NextServer]_vars

\* a chunkedReader is made over one of the input streams
InitReader == InitConns(0) /\ InitChunkedWriter /\ \E in \in Inputs : InitChunked(in)

\* the user calls Read with buffers of any length up to MaxBuf
NextReader ==
    \E lenb \in 0..MaxBuf : \E rd \in (0..MaxBuf) \X {"nil", "EOF"} : Read(lenb, rd)

SpecReader == InitReader /\ [][NextReader]_vars

\* one connection whose first request carries a chunked body
InitBody ==
    InitConns(1) /\ InitChunkedWriter /\ \E in \in BodyInputs : InitChunked(in)

\* the handler reads the body as far as it likes, replies and returns
NextBody ==
    \/ nRead[1] = 0 /\ ServeRead(1, "REQMOD")
    \/ nRead[1] = 0 /\ \E err \in ReadErrors : ServeReadFail(1, err)
    \/ ServeReadNext(1)
    \/ \E lenb \in 1..MaxBuf : \E rd \in (0..MaxBuf) \X {"nil", "EOF"} :
            HandlerReadBody(1, lenb, rd)
    \/ HandlerWriteHeader(1, 200, "req", FALSE, TRUE)
    \/ HandlerReturn(1)
    \/ FinishRequest(1)

SpecBody == InitBody /\ [][NextBody]_vars

\* the sequences of buffers a caller writes before it closes the writer
BufLists == UNION {[1..n -> WriteBufs] : n \in 0..MaxOps}

RECURSIVE WireAfter(_)
\* what Wire holds after Write was called with each buffer of bufs in turn
WireAfter(bufs) ==
    IF bufs = <<>> THEN <<>>
    ELSE WireAfter(SubSeq(bufs, 1, Len(bufs) - 1)) \o chunkedWriter_Write(bufs[Len(bufs)])

\* a chunkedReader is made over what a chunkedWriter produced for bufs, its
\* Close and the CRLF that ends the body
InitRound ==
    /\ InitConns(0)
    /\ InitChunkedWriter
    /\ \E bufs \in BufLists :
        /\ input = [chunks |-> bufs, style |-> "written", tail |-> <<CR, LF>>,
                    fault |-> "none", at |-> 0]
        /\ stream = WireAfter(bufs) \o chunkedWriter_Close \o <<CR, LF>>
    /\ cr = [n |-> 0, err |-> "nil", pos |-> 0]
    /\ out = <<>>
    /\ ret = <<0, "nil">>

SpecRound == InitRound /\ [][NextReader]_vars

\* Serve is called, with a Handler or without, after the registrations a
\* program makes before it starts the server
InitMux ==
    /\ InitDeadlines(0)
    /\ InitChunked(NoInput)
    /\ InitChunkedWriter
    /\ servePc = "accept"
    /\ lClosed = FALSE
    /\ accepted = 0
    /\ timeouts = 0
    /\ serveRet = "none"
    /\ pc = [c \in Conns |-> "none"]
    /\ rwcClose = [c \in Conns |-> 0]
    /\ bufNil = [c \in Conns |-> FALSE]
    /\ nRead = [c \in Conns |-> 0]
    /\ nRet = [c \in Conns |-> 0]
    /\ nFin = [c \in Conns |-> 0]
    /\ w = [c \in Conns |-> NoWriter]
    /\ bw = [c \in Conns |-> <<>>]
    /\ wire = [c \in Conns |-> <<>>]
    /\ lastWrite = [c \in Conns |-> "none"]
    /\ readErr = [c \in Conns |-> "none"]
    /\ mux \in {NoMux, [NoMux EXCEPT !["/modify"] = "handleRequestModification"]}
    /\ \E h \in {"nil", "srv.Handler"} : handler = Serve_handler(h, mux)
    /\ invoked = [c \in Conns |-> <<>>]

\* the server runs while the program goes on registering handlers
NextMux ==
    \/ Accept
    \/ \E path \in Paths : \E h \in HandlerIds : HandleFunc(path, h)
    \/ \E c \in Conns :
        \/ ServeRead(c, "REQMOD")
        \/ \E path \in Paths : ServeICAP(c, path)
        \/ Len(invoked[c]) = nRead[c] /\ HandlerReturn(c)
        \/ FinishRequest(c)

SpecMux == InitMux /\ [][NextMux]_vars

\* the values of srv.ReadTimeout
ReadTimeouts == 0..MaxReadTimeout

\* Serve is called on an open listener by a server with any ReadTimeout
InitDeadline ==
    /\ InitChunked(NoInput)
    /\ InitChunkedWriter
    /\ \E rt \in ReadTimeouts : InitDeadlines(rt)
    /\ servePc = "accept"
    /\ lClosed = FALSE
    /\ accepted = 0
    /\ timeouts = 0
    /\ serveRet = "none"
    /\ pc = [c \in Conns |-> "none"]
    /\ rwcClose = [c \in Conns |-> 0]
    /\ bufNil = [c \in Conns |-> FALSE]
    /\ nRead = [c \in Conns |-> 0]
    /\ nRet = [c \in Conns |-> 0]
    /\ nFin = [c \in Conns |-> 0]
    /\ w = [c \in Conns |-> NoWriter]
    /\ bw = [c \in Conns |-> <<>>]
    /\ wire = [c \in Conns |-> <<>>]
    /\ lastWrite = [c \in Conns |-> "none"]
    /\ readErr = [c \in Conns |-> "none"]
    /\ mux = NoMux
    /\ handler = Serve_handler("nil", NoMux)
    /\ invoked = [c \in Conns |-> <<>>]

\* the accept loop and its connections while time passes, with the handler of
\* the README: WriteHeader(204, nil, false)
NextDeadline ==
    \/ Accept
    \/ Tick
    \/ \E c \in Conns :
        \/ ServeRead(c, "REQMOD")
        \/ \E k \in 1..MaxReqs : ServeReadPipelined(c, "REQMOD", k)
        \/ ServeReadBuffered(c, "REQMOD")
        \/ \E err \in ReadErrors : ServeReadFail(c, err)
        \/ HandlerWriteHeader(c, 204, "nil", FALSE, TRUE)
        \/ HandlerReturn(c)
        \/ FinishRequest(c)

SpecDeadline == InitDeadline /\ [][NextDeadline]_vars

\* a chunkedWriter is made by NewChunkedWriter
InitWriter == InitConns(0) /\ InitChunked(NoInput) /\ InitChunkedWriter

\* the user calls Write and Close, the Wire failing or not
NextWriter ==
    \/ \E data \in WriteBufs : \E f \in WireFaults : Write(data, f)
    \/ \E f \in {"none", "close"} : Close(f)

SpecWriter == InitWriter /\ [][NextWriter]_vars

(***************************************************************************)
(* Properties of one connection.                                           *)
(***************************************************************************)
\* everything the connection has produced, in stream order
Out(c) == wire[c] \o bw[c]

\* the sections answering request k
Resp(q, k) == SelectSeq(q, LAMBDA t : t.r = k)

BodyOf(q) == SelectSeq(q, LAMBDA t : t.sec = "body")

InOrder(q) == \A i, j \in 1..Len(q) : i < j => q[i].r <= q[j].r

\* a step in which conn.serve calls readRequest
ReadStep(c) == nRead'[c] # nRead[c] \/ readErr'[c] # readErr[c]

\* C1: within one connection request k+1 is read only after the handler of
\* request k has returned and finishRequest has completed and flushed; the
\* responses lie on the wire in request order and never interleave.
C1_Sequential ==
    /\ [](\A c \in Conns :
            /\ nFin[c] <= nRet[c] /\ nRet[c] <= nRead[c] /\ nRead[c] <= nFin[c] + 1
            /\ InOrder(Out(c)))
    /\ [][\A c \in Conns :
            ReadStep(c) => nRet[c] = nRead[c] /\ nFin[c] = nRead[c] /\ bw[c] = <<>>]_vars

\* the second request is being handled after the first response, with a body,
\* went out
C1_Witness ==
    \E c \in Conns :
        /\ nRead[c] = 2 /\ pc[c] = "handler" /\ bw[c] # <<>>
        /\ BodyOf(Resp(wire[c], 1)) # <<>>

\* C2 (as claimed): once a response carrying Connection: close is finished,
\* no further request is read on the connection.
C2_CloseEndsLoop ==
    \A c \in Conns : \A i \in 1..Len(wire[c]) :
        (wire[c][i].sec = "icap" /\ wire[c][i].close /\ wire[c][i].r <= nFin[c])
            => nRead[c] <= wire[c][i].r

\* C3 (as claimed): after a handler panic the connection's socket is closed.
C3_PanicCloses ==
    \A c \in Conns : pc[c] = "panicked" => rwcClose[c] >= 1

C7_NoBody204 ==
    \A c \in Conns : \A i \in 1..Len(Out(c)) :
        LET t == Out(c)[i]
        IN  (t.sec = "icap" /\ t.code = 204) =>
                /\ t.encap = << <<"null-body", 0>> >>
                /\ Resp(Out(c), t.r) = <<t>>

\* WriteHeader(204, req, true), then a Write that is refused
C7_Witness ==
    \E c \in Conns :
        /\ w[c].wroteHeader /\ w[c].code = 204 /\ w[c].embedded = "req" /\ w[c].hasBody
        /\ lastWrite[c] = "no body"

\* C8: per request the header block is committed at most once, exactly when
\* the latch is set; a Write before WriteHeader fails with "header not
\* written" and leaves the connection's output alone.
C8_HeaderOnce ==
    /\ [](\A c \in Conns :
            /\ \A k \in 1..nRead[c] :
                 Len(SelectSeq(Resp(Out(c), k), LAMBDA t : t.sec = "icap")) <= 1
            /\ pc[c] \in {"handler", "finish"} =>
                 (w[c].wroteHeader <=>
                    \E i \in 1..Len(bw[c]) : bw[c][i].sec = "icap" /\ bw[c][i].r = nRead[c]))
    /\ [][\A c \in Conns :
            /\ (w[c].wroteHeader /\ nRead'[c] = nRead[c] /\ pc'[c] = "handler")
                  => w'[c].wroteHeader
            /\ (pc[c] = "handler" /\ pc'[c] = "handler" /\ ~w[c].wroteHeader
                  /\ lastWrite'[c] # lastWrite[c])
                  => (lastWrite'[c] = "header not written"
                      /\ bw'[c] = bw[c] /\ wire'[c] = wire[c])]_vars

\* in the second request a Write was rejected before the header was written
C8_Witness ==
    \E c \in Conns :
        /\ nRead[c] = 2 /\ w[c].wroteHeader /\ lastWrite[c] = "header not written"
        /\ Len(SelectSeq(Out(c), LAMBDA t : t.sec = "icap")) = 2

\* C9: when finishRequest completes a response with a body, the body on the
\* wire ends in 0 CRLF (Close) and one CRLF (finish) after the data chunks,
\* and nothing stays buffered when the loop is back at readRequest.
C9_Terminator ==
    /\ [](\A c \in Conns : pc[c] = "read" => bw[c] = <<>>)
    /\ [][\A c \in Conns :
            (nFin'[c] # nFin[c] /\ w[c].cw) =>
                LET B == BodyOf(Resp(wire'[c], nRead[c]))
                    n == Len(B)
                IN  /\ n >= 2
                    /\ B[n].b = <<CR, LF>>
                    /\ B[n - 1].b = <<Zero, CR, LF>>
                    /\ \A i \in 1..(n - 2) : B[i].b[1] # Zero]_vars

\* a finished response whose body has two data chunks and the terminator
C9_Witness ==
    \E c \in Conns :
        /\ pc[c] = "read" /\ nFin[c] >= 1
        /\ Len(BodyOf(Resp(wire[c], 1))) = 4

Unread == SubSeq(stream, cr.pos + 1, Len(stream))

\* the first line of the bytes q, the line end included
FirstLine(q) == SubSeq(q, 1, FirstLF(q, 0))

\* a step in which readRequest fails and the connection ends without a handler
\* invocation
FailedRead(c) ==
    /\ nRead'[c] = nRead[c] /\ nRet'[c] = nRet[c]
    /\ pc'[c] = "exit" /\ rwcClose'[c] >= 1

\* C22 (as claimed): when the handler has returned without reading the body
\* to its end, the next readRequest fails and ends the connection.
C22_NextReadFails ==
    [][\A c \in 1..accepted :
         (ReadStep(c) /\ nRead[c] >= 1 /\ cr.err # "EOF") => FailedRead(c)]_vars

\* C22 (amended): the loop reads nothing of the body itself; the next
\* readRequest starts at the first unread byte, and unless the unread bytes
\* begin with a line of three tokens it fails and ends the connection:
\* closed, no handler invocation.
C22_UnreadBodyNotDrained ==
    /\ [][\A c \in 1..accepted :
            (nRet'[c] # nRet[c] \/ nFin'[c] # nFin[c]) => cr' = cr]_vars
    /\ [][\A c \in 1..accepted :
            (ReadStep(c) /\ nRead[c] >= 1 /\ cr.err # "EOF"
                /\ NumTokens(trimTrailingWhitespace(FirstLine(Unread))) # 3)
              => FailedRead(c)]_vars

\* the handler read the first three bytes of a body of ten and returned; the
\* next readRequest failed on the other seven and the connection was closed
C22_Witness ==
    \E c \in 1..accepted :
        /\ input # NoInput /\ input.chunks = <<Rep(10, ByteX)>> /\ input.style = "lower"
        /\ cr.err = "nil" /\ out = Rep(3, ByteX)
        /\ nRead[c] = 1 /\ nFin[c] = 1
        /\ pc[c] = "exit" /\ readErr[c] = "protocol" /\ rwcClose[c] >= 1

\* C15 (as claimed): a connection that ended on a protocol error of
\* ReadRequest carries a 400 reply with null-body=0.
C15_BadRequestReply ==
    \A c \in Conns :
        (pc[c] = "exit" /\ readErr[c] = "protocol") =>
            \E i \in 1..Len(wire[c]) :
                /\ wire[c][i].sec = "icap" /\ wire[c][i].code = 400
                /\ wire[c][i].encap = << <<"null-body", 0>> >>

\* C16: when readRequest fails with an I/O error the step invokes no handler
\* and puts nothing on the wire, the socket is closed and the goroutine has
\* left the loop; from then on the connection reads, handles and writes
\* nothing.
C16_IoErrorCloses ==
    /\ [][\A c \in Conns :
            (readErr'[c] # readErr[c] /\ readErr'[c] = "io") =>
                /\ nRead'[c] = nRead[c] /\ nRet'[c] = nRet[c]
                /\ wire'[c] = wire[c] /\ bw'[c] = <<>>
                /\ pc'[c] = "exit" /\ rwcClose'[c] >= 1]_vars
    /\ [][\A c \in Conns :
            pc[c] = "exit" =>
                /\ pc'[c] = "exit" /\ nRead'[c] = nRead[c] /\ nRet'[c] = nRet[c]
                /\ wire'[c] = wire[c] /\ bw'[c] = bw[c]]_vars

\* the read of the second request fails after the first was answered
C16_Witness ==
    \E c \in Conns :
        /\ pc[c] = "exit" /\ readErr[c] = "io" /\ rwcClose[c] >= 1
        /\ nRead[c] = 1 /\ nFin[c] = 1 /\ wire[c] # <<>>

\* C17 (as claimed): a connection whose loop has ended has had Close called
\* on its net.Conn exactly once.
C17_ClosedOnce ==
    \A c \in Conns : pc[c] = "exit" => rwcClose[c] = 1

\* C20: every request readRequest returns is handed to the handler with the
\* method it was read with, whatever that is, before anything of a reply to
\* it exists; the handler runs once per request read.
C20_NoPreemption ==
    /\ [][\A c \in Conns :
            nRead'[c] # nRead[c] =>
                /\ nRead'[c] = nRead[c] + 1
                /\ pc'[c] = "handler"
                /\ \E method \in Methods : w'[c] = newRespWriter(c, method)
                /\ Resp(wire'[c] \o bw'[c], nRead'[c]) = <<>>]_vars
    /\ [](\A c \in Conns :
            /\ nRet[c] <= nRead[c] /\ nRead[c] <= nRet[c] + 1
            /\ pc[c] = "handler" => nRead[c] = nRet[c] + 1
            /\ pc[c] \in {"read", "finish"} => nRead[c] = nRet[c])
    /\ [](\A c \in Conns :
            (pc[c] = "read" /\ nRead[c] < MaxReqs) =>
                \A method \in Methods : ENABLED ServeRead(c, method))

\* the handler is running for a second request, whose method is FROB
C20_Witness ==
    \E c \in Conns :
        /\ pc[c] = "handler" /\ nRead[c] = 2 /\ w[c].method = "FROB"
        /\ ~w[c].wroteHeader

(***************************************************************************)
(* Properties of the server.                                               *)
(***************************************************************************)
\* a step in which the goroutine of c ends on a handler panic or a failed read
Fault(c) == pc[c] \in {"read", "handler"} /\ pc'[c] \notin {"read", "handler", "finish"}

Faulted(c) == pc[c] \in {"panicked", "exit"}

\* C4: a panic or read error on one connection ends that connection's
\* goroutine only: the step leaves the accept loop and every other connection
\* as they were, and afterwards the accept loop can still accept and the
\* other connections can still read, handle and finish their requests.
C4_FaultIsolated ==
    /\ [][\A c \in Conns :
            Fault(c) =>
                /\ UNCHANGED srvVars
                /\ \A d \in Conns \ {c} :
                     /\ pc'[d] = pc[d] /\ rwcClose'[d] = rwcClose[d]
                     /\ bufNil'[d] = bufNil[d] /\ nRead'[d] = nRead[d]
                     /\ nRet'[d] = nRet[d] /\ nFin'[d] = nFin[d] /\ w'[d] = w[d]
                     /\ bw'[d] = bw[d] /\ wire'[d] = wire[d]]_vars
    /\ [](\A c \in Conns :
            Faulted(c) =>
                /\ (servePc = "accept" /\ accepted < MaxConns) => ENABLED Accept
                /\ \A d \in Conns \ {c} :
                     /\ (pc[d] = "read" /\ nRead[d] < MaxReqs)
                            => ENABLED ServeRead(d, "REQMOD")
                     /\ pc[d] = "handler" => ENABLED HandlerReturn(d)
                     /\ pc[d] = "finish" => ENABLED FinishRequest(d))

\* one connection has panicked, another one is inside its second handler
\* invocation and the accept loop is still accepting
C4_Witness ==
    \E c, d \in Conns :
        /\ c # d /\ pc[c] = "panicked" /\ pc[d] = "handler" /\ nRead[d] = 2
        /\ servePc = "accept" /\ ~lClosed

\* C23: with a nil Handler every request is dispatched through the default
\* mux as it is when the request is dispatched: it reaches the handler
\* registered for its path at that moment, or the 404 handler when there is
\* none, whenever that handler was registered and whenever the connection was
\* accepted.
C23_DefaultMuxByReference ==
    [][\A c \in Conns :
         (invoked'[c] # invoked[c] /\ handler.of = "nil") =>
            /\ Len(invoked'[c]) = nRead[c]
            /\ SubSeq(invoked'[c], 1, Len(invoked[c])) = invoked[c]
            /\ LET e == invoked'[c][Len(invoked'[c])]
               IN  e.h = IF mux[e.path] = "none" THEN "NotFound" ELSE mux[e.path]]_vars

\* a path was registered anew between two requests of one connection; the
\* second request, and the request of another connection, went to the new
\* handler
C23_Witness ==
    \E c, d \in Conns :
        /\ c # d /\ handler.of = "nil"
        /\ invoked[c] = <<[path |-> "/modify", h |-> "handleRequestModification"],
                          [path |-> "/modify", h |-> "handleResponseModification"]>>
        /\ invoked[d] = <<[path |-> "/modify", h |-> "handleResponseModification"]>>

\* C18: an Accept timeout leads to the 5 ms sleep and back to Accept with
\* the listener open and Serve running; any other Accept error makes Serve
\* return that error, the listener closed, and nothing is accepted afterwards.
C18_AcceptErrors ==
    /\ [][timeouts' # timeouts =>
            /\ servePc' = "sleep" /\ ~lClosed' /\ serveRet' = "none"
            /\ accepted' = accepted]_vars
    /\ [](servePc = "sleep" => (~lClosed /\ ENABLED AcceptRetry))
    /\ [][(servePc = "sleep" /\ servePc' # "sleep") => (servePc' = "accept" /\ ~lClosed')]_vars
    /\ [](servePc # "returned" => (~lClosed /\ serveRet = "none"))
    /\ [](servePc = "returned" => (lClosed /\ serveRet \in AcceptErrors))
    /\ [][\A err \in AcceptErrors :
            (servePc = "accept" /\ AcceptError(err)) =>
                (servePc' = "returned" /\ serveRet' = err /\ lClosed')]_vars
    /\ [][servePc = "returned" =>
            (servePc' = "returned" /\ accepted' = accepted /\ serveRet' = serveRet)]_vars

\* a timeout was retried, a connection accepted afterwards, then Accept
\* failed for good
C18_Witness ==
    /\ timeouts = 1 /\ accepted = 1
    /\ servePc = "returned" /\ serveRet = "emfile" /\ lClosed

\* C19: the accept loop is ready for the next connection whatever the
\* connections accepted before are doing; accepting starts the new
\* connection's loop and touches no other connection.
C19_AcceptNeverWaits ==
    /\ [](servePc = "accept" /\ accepted < MaxConns => ENABLED Accept)
    /\ [][accepted' # accepted =>
            /\ accepted' = accepted + 1
            /\ pc'[accepted'] = "read"
            /\ \A c \in Conns \ {accepted'} : pc'[c] = pc[c]]_vars

\* the handlers of two connections are running at the same time
C19_Witness ==
    \E c, d \in Conns :
        /\ c # d /\ pc[c] = "handler" /\ pc[d] = "handler"
        /\ servePc = "accept"

(***************************************************************************)
(* Properties of the chunked reader.                                       *)
(***************************************************************************)
\* C5: on a well-formed chunked stream, whatever the buffer sizes, the bytes
\* Read returns are the chunk payloads in order and nothing else, and the
\* reader ends with io.EOF exactly when it has read the zero-size chunk line.
C5_Dechunk ==
    (input # NoInput /\ input.fault = "none") =>
        LET endOfChunks == Len(stream) - Len(input.tail)
        IN  /\ IsPrefix(out, Concat(input.chunks))
            /\ cr.err \in {"nil", "EOF"}
            /\ ret[2] \in {"nil", "EOF"}
            /\ cr.err = "EOF" <=> cr.pos = endOfChunks
            /\ cr.err = "EOF" => out = Concat(input.chunks)

\* a stream in upper-case hex whose first payload looks like the last chunk,
\* read to the end
C5_Witness ==
    /\ input.fault = "none" /\ input.style = "upper"
    /\ input.chunks = <<<<Zero, CR, LF>>, Rep(10, ByteX)>>
    /\ out = Concat(input.chunks)
    /\ ret = <<0, "EOF">>

\* C10 (as claimed): a stream in which the data of a chunk disagrees with its
\* declared size never ends in a clean io.EOF.
C10_MismatchFails ==
    input.fault \in {"extra", "short", "cut"} => cr.err # "EOF"

\* the bytes of the stream up to the end of the faulty size line
LineEnd(in) ==
    Len(ChunksUpTo(in, in.at - 1))
    + Len(Line(in, in.at, IF in.at > Len(in.chunks) THEN 0 ELSE Len(in.chunks[in.at])))

\* the bytes of the stream up to the second byte behind the declared data of
\* the faulty chunk
DataEnd(in) ==
    Len(ChunksUpTo(in, in.at - 1)) + Len(SizeLine(Len(in.chunks[in.at]), in.style))
    + Len(in.chunks[in.at]) + 2

\* the payloads of the chunks in front of the faulty one
Before(in) == Concat(SubSeq(in.chunks, 1, in.at - 1))

\* C21 (as claimed): a size line that is no hex number fails with "malformed
\* chunk size", two bytes behind the data that are not CR LF fail with
\* "missing chunk CRLF".
C21_ErrorNames ==
    /\ (input.fault = "badsize" /\ cr.err # "nil") => cr.err = "malformed chunk size"
    /\ (input.fault \in {"extra", "short"} /\ cr.err # "nil") => cr.err = "missing chunk CRLF"

\* C21 (amended): the reader fails exactly at a size line with a byte that is
\* no hex digit, with the error "invalid chunk length", and exactly at two
\* bytes behind a chunk's data that are not CR LF, with the error "malformed
\* chunked encoding".
C21_ErrorTexts ==
    /\ input.fault = "badsize" =>
          /\ cr.err \in {"nil", "invalid chunk length"}
          /\ cr.err = "nil" <=> cr.pos < LineEnd(input)
          /\ cr.err # "nil" => (cr.pos = LineEnd(input) /\ out = Before(input))
    /\ input.fault \in {"extra", "short"} =>
          /\ cr.err \in {"nil", "malformed chunked encoding"}
          /\ cr.err = "nil" <=> cr.pos < DataEnd(input)
          /\ cr.err # "nil" => cr.pos = DataEnd(input)

\* the size line of the second chunk is no hex number; the first chunk was read
C21_Witness ==
    /\ input.fault = "badsize" /\ input.at = 2
    /\ cr.err = "invalid chunk length" /\ out = input.chunks[1]

\* C25 (as claimed): a stream that ends inside a size line, inside chunk data
\* or ahead of the CRLF behind the data never ends in a clean io.EOF.
C25_EofOnlyAtTerminator ==
    input.fault \in CutFaults => (cr.err # "EOF" /\ ret[2] # "EOF")

\* C26 (as claimed): at end-of-stream the reader has consumed the CRLF behind
\* the zero-size chunk line as well.
C26_ConsumesFinalCRLF ==
    (input.fault = "none" /\ input.tail = <<CR, LF>> /\ cr.err = "EOF")
        => cr.pos = Len(stream)

\* C27 (as claimed): a size line that is empty or blank is an error and is
\* not the end of the stream.
C27_EmptySizeRejected ==
    (input.fault \in {"empty", "blank"} /\ cr.pos >= LineEnd(input))
        => cr.err \notin {"nil", "EOF"}

\* C28: a size line with a chunk extension fails with the parse error
\* "invalid chunk length" as soon as it is read, on a data chunk and on the
\* zero-size chunk alike: no end-of-stream, and no byte of that chunk or of
\* what follows is returned.
C28_ExtensionRejected ==
    input.fault = "ext" =>
        /\ cr.err \in {"nil", "invalid chunk length"}
        /\ ret[2] \in {"nil", "invalid chunk length"}
        /\ cr.err = "nil" <=> cr.pos < LineEnd(input)
        /\ cr.pos <= LineEnd(input)
        /\ IsPrefix(out, Before(input))

\* the zero-size chunk line carries an extension; the chunks before it were read
C28_Witness ==
    /\ input.fault = "ext" /\ input.at = Len(input.chunks) + 1 /\ input.at > 1
    /\ ret = <<0, "invalid chunk length">> /\ out = Concat(input.chunks)

\* C29: once cr.err is set, every Read returns 0 and that error and leaves
\* the reader, the underlying reader's position included, as it was.
C29_StickyError ==
    [][cr.err # "nil" => (ret' = <<0, cr.err>> /\ cr' = cr /\ out' = out)]_vars

\* a Read behind the one that returned data and found the bad CRLF
C29_Witness ==
    /\ cr.err = "malformed chunked encoding"
    /\ ret = <<0, "malformed chunked encoding">> /\ out # <<>>
    /\ input.chunks = <<<<ByteX>>, <<ByteX>>>>

\* C24: reading back what the writer produced for a sequence of buffers, its
\* Close and one CRLF returns the bytes of the buffers in order, the empty
\* ones contributing nothing, and ends in io.EOF exactly behind the 0 CRLF
\* line, whatever the sizes of the reads.
C24_RoundTrip ==
    input.style = "written" =>
        /\ IsPrefix(out, Concat(input.chunks))
        /\ cr.err \in {"nil", "EOF"}
        /\ ret[2] \in {"nil", "EOF"}
        /\ cr.err = "EOF" <=> cr.pos = Len(stream) - 2
        /\ cr.err = "EOF" => out = Concat(input.chunks)

\* ten bytes, an empty buffer and one byte were written and read back to the end
C24_Witness ==
    /\ input.style = "written"
    /\ input.chunks = <<Rep(10, ByteX), <<>>, <<ByteX>>>>
    /\ out = Rep(11, ByteX)
    /\ ret = <<0, "EOF">>

(***************************************************************************)
(* Properties of the chunked writer.                                       *)
(***************************************************************************)
\* a step that is a Write call with a buffer of length n
WriteStep(data) == wops' # wops /\ \E f \in WireFaults : Write(data, f)

\* C30 (as claimed): once Close has been called on a chunked writer, no call
\* puts anything on the wire: no second terminator and no chunk behind it.
C30_NothingAfterClose ==
    [][wclosed => Wire' = Wire]_vars

\* C12: a Write with a zero-length buffer leaves the underlying writer as it
\* was, however that writer behaves, and returns (0, nil).
C12_EmptyWriteDropped ==
    [][WriteStep(<<>>) => (Wire' = Wire /\ wret' = <<0, "nil">>)]_vars

\* an empty Write behind a chunk of data
C12_Witness ==
    /\ Wire = chunkedWriter_Write(Rep(10, ByteX))
    /\ wops = 2
    /\ wret = <<0, "nil">>

\* C13: a successful Close appends the three bytes 0 CR LF and nothing else.
C13_CloseThreeBytes ==
    [][(wops' # wops /\ Close("none")) => Wire' = Wire \o <<Zero, CR, LF>>]_vars

\* a chunk, then the Close: the wire ends in the data's CRLF and 0 CRLF
C13_Witness ==
    /\ wops = 2
    /\ Wire = <<Zero + 1, CR, LF, ByteX, CR, LF, Zero, CR, LF>>

\* C14: a successful Write of a non-empty buffer appends the length in
\* lower-case hex without leading zeros, CRLF, the buffer, CRLF, and returns
\* the length of the buffer.
C14_WriteFrame ==
    [][\A data \in WriteBufs \ {<<>>} :
         (WriteStep(data) /\ wret'[2] = "nil") =>
            /\ wret'[1] = Len(data)
            /\ Len(Wire') >= Len(Wire)
            /\ SubSeq(Wire', 1, Len(Wire)) = Wire
            /\ LET frame == SubSeq(Wire', Len(Wire) + 1, Len(Wire'))
                   size == CASE Len(data) = 1 -> <<Zero + 1>>
                             [] Len(data) = 10 -> <<LowerA>>
                             [] Len(data) = 17 -> <<Zero + 1, Zero + 1>>
                             [] OTHER -> <<>>
               IN  frame = size \o <<CR, LF>> \o data \o <<CR, LF>>]_vars

\* a chunk of ten bytes, whose size is the letter a, was written
C14_Witness ==
    /\ wops = 1
    /\ wret = <<10, "nil">>
    /\ Wire = <<LowerA, CR, LF>> \o Rep(10, ByteX) \o <<CR, LF>>

(***************************************************************************)
(* Properties of the read deadline.                                        *)
(***************************************************************************)
\* the instant the read deadline of connection c names is reached
AfterDeadline(c) == deadline[c] # 0 /\ now >= deadline[c]

\* a step in which readRequest of connection c returned
ReadReturns(c) == pc[c] = "read" /\ pc'[c] # "read"

\* a read deadline changes only when Serve accepts the connection, and then
\* to the accept time plus a non-zero ReadTimeout
ArmedAtAccept ==
    \A c \in Conns :
        deadline'[c] # deadline[c] =>
            /\ accepted' = accepted + 1
            /\ c = accepted'
            /\ readTimeout # 0
            /\ deadline'[c] = now + readTimeout

\* C31: with a non-zero ReadTimeout the read deadline is armed once, when the
\* connection is accepted, at accept time + ReadTimeout, and never moved;
\* completing a request does not extend it, and any request read attempted
\* after that instant fails and ends the connection; with ReadTimeout zero
\* no read deadline is ever set.
C31_DeadlineAbsolute ==
    [][/\ ArmedAtAccept
       /\ \A c \in 1..accepted :
              AfterDeadline(c) /\ ReadReturns(c) =>
                  /\ nRead'[c] = nRead[c]
                  /\ pc'[c] = "exit"
                  /\ rwcClose'[c] >= 1]_vars

\* C31, amended: the read deadline is armed at most once, when the
\* connection is accepted and ReadTimeout is not zero, at accept time +
\* ReadTimeout (not at all when SetReadDeadline fails), and never moved;
\* completing a request does not extend it. From that instant on a request
\* read succeeds only for a request the connection's buffered reader already
\* holds whole; every other request read fails and ends the connection. With
\* ReadTimeout zero no read deadline is ever set.
C31_DeadlineOnSocket ==
    [][/\ ArmedAtAccept
       /\ \A c \in 1..accepted :
              AfterDeadline(c) /\ ReadReturns(c) =>
                  IF buffered[c] > 0
                  THEN /\ nRead'[c] = nRead[c] + 1
                       /\ buffered'[c] = buffered[c] - 1
                       /\ pc'[c] = "handler"
                       /\ rwcClose'[c] = rwcClose[c]
                  ELSE /\ nRead'[c] = nRead[c]
                       /\ pc'[c] = "exit"
                       /\ rwcClose'[c] >= 1]_vars

\* one connection whose second request was read from the buffer after the
\* deadline and is being served, and another whose read-request after the
\* deadline, behind a completed request, failed and closed it
C31_Witness ==
    \E c, d \in 1..accepted :
        /\ c # d
        /\ deadline[c] # 0 /\ deadline[d] # 0
        /\ nRead[c] = 2 /\ nFin[c] = 1 /\ pc[c] = "handler"
        /\ readAt[c] >= deadline[c]
        /\ nFin[d] >= 1 /\ pc[d] = "exit" /\ rwcClose[d] >= 1
        /\ readAt[d] >= deadline[d]
====
